---------------------------- MODULE Spec2Model ----------------------------
(***************************************************************************)
(* SynapseStats (synapsestats.py): the record loader and the six query     *)
(* functions of class SynapseStats, as a state machine.                    *)
(*                                                                         *)
(*   - JSON values are tagged records (null, number, string, list,         *)
(*     object); a key missing from an object is the value Absent.          *)
(*   - Names and labels are sequences of characters, so that str.upper(),  *)
(*     `x in "string"` and `x in [list]` are computed, not assumed.        *)
(*   - A timestamp string is its date, its time of day and its suffix      *)
(*     ("" | "Z" | "+00:00" | "+12:00"); time is counted in ticks of       *)
(*     1/TicksPerDay day.  The clock is read once per query.               *)
(*   - A Python exception is the result Raise(type).                       *)
(***************************************************************************)
EXTENDS Integers, Sequences, FiniteSets, TLC

(***************************************************************************)
(* Bounds of the model.                                                    *)
(***************************************************************************)
MaxFiles == 2
MaxDays == 2
\* the files of a store of the sender/priority family alone
MaxSenderFiles == 3

(***************************************************************************)
(* Characters and strings.                                                 *)
(***************************************************************************)
ATLAS == <<"A", "T", "L", "A", "S">>
atlas == <<"a", "t", "l", "a", "s">>
FORGE == <<"F", "O", "R", "G", "E">>
ALL_AGENTS == <<"A", "L", "L", "_", "A", "G", "E", "N", "T", "S">>
UNKNOWN == <<"U", "N", "K", "N", "O", "W", "N">>
NORMAL == <<"N", "O", "R", "M", "A", "L">>
HIGH == <<"H", "I", "G", "H">>
NoneStr == <<"N", "o", "n", "e">>
Garbage == <<"n", "o", "t", "-", "a", "-", "d", "a", "t", "e">>

LowerToUpper ==
    [c \in {"a", "d", "e", "l", "n", "o", "s", "t"} |->
        CASE c = "a" -> "A" [] c = "d" -> "D" [] c = "e" -> "E"
          [] c = "l" -> "L" [] c = "n" -> "N" [] c = "o" -> "O"
          [] c = "s" -> "S" [] c = "t" -> "T"]

\* str.upper()
Upper(s) ==
    [i \in DOMAIN s |-> IF s[i] \in DOMAIN LowerToUpper THEN LowerToUpper[s[i]] ELSE s[i]]

\* `a in b` for two Python strings: a occurs in b as a substring
Substring(a, b) ==
    \E k \in 0..(Len(b) - Len(a)) : \A i \in 1..Len(a) : b[k + i] = a[i]

(***************************************************************************)
(* JSON values as json.loads builds them.                                  *)
(***************************************************************************)
Absent == [t |-> "absent"]
Null == [t |-> "null"]
Num(n) == [t |-> "num", n |-> n]
Str(s) == [t |-> "str", s |-> s]
List(xs) == [t |-> "list", items |-> xs]
\* an ISO-8601 timestamp string: date (day number), time of day (tick), suffix
TsStr(d, k, sfx) == [t |-> "str", date |-> d, time |-> k, suffix |-> sfx]
\* a reply entry {"ai": ..., "timestamp": ...}
Reply(ai, ts) == [t |-> "obj", ai |-> ai, timestamp |-> ts]
\* a message record {"from": ..., "to": ..., "priority": ..., ...}
Msg(f, to, p, ts, rb) ==
    [t |-> "obj", from |-> f, to |-> to, priority |-> p, timestamp |-> ts,
     replied_by |-> rb]

IsStr(v) == v.t = "str"
IsIso(v) == IsStr(v) /\ "suffix" \in DOMAIN v
IsList(v) == v.t = "list"
IsReply(v) == v.t = "obj" /\ "ai" \in DOMAIN v
IsMsg(v) == v.t = "obj" /\ "from" \in DOMAIN v

\* dict.get(key, default)
Get(m, key, default) == IF m[key] = Absent THEN default ELSE m[key]
\* `key in dict`
HasKey(m, key) == m[key] # Absent

\* bool(v)
Truthy(v) ==
    CASE v.t = "null" -> FALSE
      [] v.t = "num" -> v.n # 0
      [] IsIso(v) -> TRUE
      [] v.t = "str" -> v.s # <<>>
      [] v.t = "list" -> v.items # <<>>
      [] OTHER -> TRUE

\* the values `for x in v` yields (a string yields its characters)
Iterable(v) == v.t \in {"str", "list"}
Items(v) == IF IsList(v) THEN v.items ELSE [i \in DOMAIN v.s |-> Str(<<v.s[i]>>)]

\* hash(v) succeeds: a list (or dict) cannot be a dictionary key
Hashable(v) == v.t \in {"null", "num", "str"}

Ok(v) == [raised |-> FALSE, value |-> v]
Raise(e) == [raised |-> TRUE, exc |-> e]


\* len(v), where it is defined
HasLen(v) == v.t \in {"str", "list"}
PyLen(v) == IF IsList(v) THEN Len(v.items) ELSE Len(v.s)

\* f"{num/den:.1f}": the quotient rounded to one decimal place, in tenths
Round1(num, den) == (2 * 10 * num + den) \div (2 * den)
Percent(num, den) == [tenths |-> Round1(100 * num, den), unit |-> "%"]
Minutes(num, den) == [tenths |-> Round1(num, den), unit |-> ""]
NA == [text |-> "N/A"]

\* the exception a loop raises, given what each iteration raises: the first one,
\* "none" if no iteration raises
FirstExc(excs) ==
    IF \E i \in DOMAIN excs : excs[i] # "none"
    THEN excs[CHOOSE i \in DOMAIN excs :
                 /\ excs[i] # "none"
                 /\ \A j \in 1..(i - 1) : excs[j] = "none"]
    ELSE "none"

(***************************************************************************)
(* collections.Counter: the keys in insertion order, each with its count.  *)
(***************************************************************************)
\* a repeated key overwrites its entry instead of adding to it
CounterAddOverwrite(c, k) ==
    IF \E i \in DOMAIN c : c[i].key = k
    THEN c
    ELSE Append(c, [key |-> k, count |-> 1])

CounterAdd(c, k) ==
    IF \E i \in DOMAIN c : c[i].key = k
    THEN [i \in DOMAIN c |->
            IF c[i].key = k THEN [key |-> k, count |-> c[i].count + 1] ELSE c[i]]
    ELSE Append(c, [key |-> k, count |-> 1])

RECURSIVE CountBy(_, _, _)
\* counter = Counter(); for msg in messages: counter[msg.get(key, default)] += 1
CountBy(msgs, key, default) ==
    IF msgs = <<>> THEN <<>>
    ELSE CounterAdd(CountBy(SubSeq(msgs, 1, Len(msgs) - 1), key, default),
                    Get(msgs[Len(msgs)], key, default))

\* the counter's items as inserted, not sorted
MostCommonUnsorted(c) == c

\* sorted(items, key=count, reverse=True): stable, ties keep insertion order
RECURSIVE MostCommon(_)
MostCommon(c) ==
    IF c = <<>> THEN <<>>
    ELSE LET rest == MostCommon(SubSeq(c, 1, Len(c) - 1))
             x == c[Len(c)]
             \* x goes after every entry whose count is >= its own
             n == Cardinality({i \in DOMAIN rest : rest[i].count >= x.count})
         IN SubSeq(rest, 1, n) \o <<x>> \o SubSeq(rest, n + 1, Len(rest))

RECURSIVE SumCounts(_)
SumCounts(c) == IF c = <<>> THEN 0 ELSE c[1].count + SumCounts(Tail(c))

(***************************************************************************)
(* get_summary                                                             *)
(***************************************************************************)
CountKeyExc(m, key, default) ==
    IF ~IsMsg(m) THEN "AttributeError"
    ELSE IF ~Hashable(Get(m, key, default)) THEN "TypeError"
    ELSE "none"
SenderExc(m) == CountKeyExc(m, "from", Str(UNKNOWN))
PriorityExc(m) == CountKeyExc(m, "priority", Str(NORMAL))
ReplyCountExc(m) ==
    LET rb == Get(m, "replied_by", List(<<>>))
    IN IF Truthy(rb) /\ ~HasLen(rb) THEN "TypeError" ELSE "none"

HasReplies(m) == Truthy(Get(m, "replied_by", List(<<>>)))
RECURSIVE TotalReplies(_)
TotalReplies(msgs) ==
    IF msgs = <<>> THEN 0
    ELSE (IF HasReplies(msgs[1]) THEN PyLen(Get(msgs[1], "replied_by", List(<<>>))) ELSE 0)
         + TotalReplies(Tail(msgs))

get_summary(msgs) ==
    LET total == Len(msgs)
        e1 == FirstExc([i \in DOMAIN msgs |-> SenderExc(msgs[i])])
        e2 == FirstExc([i \in DOMAIN msgs |-> PriorityExc(msgs[i])])
        e3 == FirstExc([i \in DOMAIN msgs |-> ReplyCountExc(msgs[i])])
    IN IF total = 0
       THEN Ok([total_messages |-> 0, error |-> "No messages found"])
       ELSE IF e1 # "none" THEN Raise(e1)
       ELSE IF e2 # "none" THEN Raise(e2)
       ELSE IF e3 # "none" THEN Raise(e3)
       ELSE
         LET by_sender == CountBy(msgs, "from", Str(UNKNOWN))
             by_priority == CountBy(msgs, "priority", Str(NORMAL))
             replied_count == Cardinality({i \in DOMAIN msgs : HasReplies(msgs[i])})
             total_replies == TotalReplies(msgs)
             most_active ==
                 IF by_sender # <<>> THEN MostCommon(by_sender)[1]
                 ELSE [key |-> Str(NoneStr), count |-> 0]
         IN Ok([total_messages |-> total,
                total_replies |-> total_replies,
                messages_with_replies |-> replied_count,
                messages_no_replies |-> total - replied_count,
                reply_rate |-> Percent(replied_count, total),
                by_sender |-> MostCommon(by_sender),
                by_priority |-> MostCommon(by_priority),
                most_active_agent |-> most_active.key,
                most_active_count |-> most_active.count])

(***************************************************************************)
(* get_agent_stats                                                         *)
(***************************************************************************)
\* to_list = msg.get('to', []); if isinstance(to_list, str): to_list = [to_list]
NormalizeTo(m) ==
    LET to_list == Get(m, "to", List(<<>>))
    IN IF IsStr(to_list) THEN List(<<to_list>>) ELSE to_list

\* `x in container` for a list container
InList(x, v) == \E i \in DOMAIN v.items : v.items[i] = x

\* without the isinstance normalisation `in` on a string 'to' is a substring test
IsReceivedSubstring(m, agent_upper) ==
    LET to_list == Get(m, "to", List(<<>>))
    IN IF IsStr(to_list)
       THEN Substring(agent_upper, to_list.s) \/ Substring(ALL_AGENTS, to_list.s)
       ELSE InList(Str(agent_upper), to_list) \/ InList(Str(ALL_AGENTS), to_list)

\* agent_upper in to_list or "ALL_AGENTS" in to_list
IsReceived(m, agent_upper) ==
    LET to_list == NormalizeTo(m)
    IN InList(Str(agent_upper), to_list) \/ InList(Str(ALL_AGENTS), to_list)

\* isinstance(reply, dict) and reply.get('ai', '') == agent_upper
IsReplyOf(reply, agent_upper) ==
    IsReply(reply) /\ Get(reply, "ai", Str(<<>>)) = Str(agent_upper)

\* without the break every matching reply appends msg again
RepliedToAppendsNoBreak(m, agent_upper) ==
    LET replied_by == Items(Get(m, "replied_by", List(<<>>)))
    IN Cardinality({i \in DOMAIN replied_by : IsReplyOf(replied_by[i], agent_upper)})

\* how many times the loop over msg's replies appends msg to replied_to:
\* once at the first matching reply, where it breaks
RepliedToAppends(m, agent_upper) ==
    LET replied_by == Items(Get(m, "replied_by", List(<<>>)))
    IN IF \E i \in DOMAIN replied_by : IsReplyOf(replied_by[i], agent_upper)
       THEN 1 ELSE 0

RECURSIVE RepliedTo(_, _)
\* len(replied_to)
RepliedTo(msgs, agent_upper) ==
    IF msgs = <<>> THEN 0
    ELSE RepliedToAppends(msgs[1], agent_upper) + RepliedTo(Tail(msgs), agent_upper)

\* the guard tests for more than one received message
ResponseRateGuardOffByOne(replied_to, received) ==
    IF received > 1 THEN Percent(replied_to, received) ELSE NA

\* f"{(len(replied_to) / len(received) * 100):.1f}%" if received else "N/A"
ResponseRate(replied_to, received) ==
    IF received # 0 THEN Percent(replied_to, received) ELSE NA

SentExc(m) == IF ~IsMsg(m) THEN "AttributeError" ELSE "none"
ReceivedExc(m) == IF ~IsList(NormalizeTo(m)) THEN "TypeError" ELSE "none"
RepliedToExc(m) ==
    IF ~Iterable(Get(m, "replied_by", List(<<>>))) THEN "TypeError" ELSE "none"

get_agent_stats(msgs, agent_name) ==
    LET agent_upper == Upper(agent_name)
        e1 == FirstExc([i \in DOMAIN msgs |-> SentExc(msgs[i])])
        e2 == FirstExc([i \in DOMAIN msgs |-> ReceivedExc(msgs[i])])
        e3 == FirstExc([i \in DOMAIN msgs |-> RepliedToExc(msgs[i])])
    IN IF e1 # "none" THEN Raise(e1)
       ELSE IF e2 # "none" THEN Raise(e2)
       ELSE IF e3 # "none" THEN Raise(e3)
       ELSE
         LET sent == {i \in DOMAIN msgs : Get(msgs[i], "from", Str(<<>>)) = Str(agent_upper)}
             received == {i \in DOMAIN msgs : IsReceived(msgs[i], agent_upper)}
             replied_to == RepliedTo(msgs, agent_upper)
         IN Ok([agent |-> agent_name,
                messages_sent |-> Cardinality(sent),
                messages_received |-> Cardinality(received),
                messages_replied_to |-> replied_to,
                response_rate |-> ResponseRate(replied_to, Cardinality(received))])

(***************************************************************************)
(* Time: datetime values in ticks; a date is a day number.                 *)
(***************************************************************************)
TicksPerDay == 2
MinutesPerTick == 1440 \div TicksPerDay
\* datetime.now(): a naive local time, day Today at tick NowTick
Today == 5
NowTick == 1
Now == Today * TicksPerDay + NowTick

\* the UTC offset a suffix declares, in ticks
OffsetTicks(sfx) == IF sfx = "+12:00" THEN TicksPerDay \div 2 ELSE 0

RECURSIVE ReplaceZChars(_)
ReplaceZChars(s) ==
    IF s = <<>> THEN <<>>
    ELSE (IF s[1] = "Z" THEN <<"+", "0", "0", ":", "0", "0">> ELSE <<s[1]>>)
         \o ReplaceZChars(Tail(s))

\* s.replace('Z', '+00:00')
ReplaceZ(v) ==
    IF IsIso(v)
    THEN [v EXCEPT !.suffix = IF @ = "Z" THEN "+00:00" ELSE @]
    ELSE Str(ReplaceZChars(v.s))

\* datetime.fromisoformat(s) accepts s (otherwise ValueError)
IsoParses(v) == IsIso(v) /\ v.suffix \in {"", "+00:00", "+12:00"}
\* datetime.fromisoformat(s): naive without an offset, aware with one
FromIsoFormat(v) ==
    [aware |-> v.suffix # "",
     local |-> v.date * TicksPerDay + v.time,
     off |-> OffsetTicks(v.suffix)]

\* datetime.fromisoformat(x.replace('Z', '+00:00')) returns a value:
\* x is a string (else AttributeError) in ISO form (else ValueError)
Parses(x) == IsStr(x) /\ IsoParses(ReplaceZ(x))
ParseTime(x) == FromIsoFormat(ReplaceZ(x))

\* dt.strftime('%Y-%m-%d'): the date of the value's own local time
DateKey(dt) == dt.local \div TicksPerDay

(***************************************************************************)
(* get_timeline                                                            *)
(***************************************************************************)
\* the record is counted: timestamp truthy, parsed, comparable with the naive
\* cutoff (an aware value raises TypeError, swallowed) and >= cutoff
InTimeline(m, cutoff) ==
    LET timestamp_str == Get(m, "timestamp", Str(<<>>))
    IN /\ Truthy(timestamp_str)
       /\ Parses(timestamp_str)
       /\ ~ParseTime(timestamp_str).aware
       /\ ParseTime(timestamp_str).local >= cutoff

\* timeline[date_key] after the loop (0 for a date with no bucket)
TimelineBucket(msgs, cutoff, date) ==
    Cardinality({i \in DOMAIN msgs :
                    /\ InTimeline(msgs[i], cutoff)
                    /\ DateKey(ParseTime(Get(msgs[i], "timestamp", Str(<<>>)))) = date})

\* the window ends yesterday: timedelta(days=days-i)
TimelineDateShifted(days, i) == (Now - (days - i) * TicksPerDay) \div TicksPerDay

\* (datetime.now() - timedelta(days=days-i-1)).strftime('%Y-%m-%d')
TimelineDate(days, i) == (Now - (days - i - 1) * TicksPerDay) \div TicksPerDay

get_timeline(msgs, days) ==
    LET cutoff == Now - days * TicksPerDay
        e1 == FirstExc([i \in DOMAIN msgs |-> SentExc(msgs[i])])
    IN IF e1 # "none" THEN Raise(e1)
       \* for i in range(days): result[date] = timeline.get(date, 0)
       ELSE Ok([k \in 1..days |->
                  [date |-> TimelineDate(days, k - 1),
                   count |-> TimelineBucket(msgs, cutoff, TimelineDate(days, k - 1))]])

(***************************************************************************)
(* get_priority_trends                                                     *)
(***************************************************************************)
\* the share is left as a fraction of 1: count / total without the * 100
get_priority_trends_fraction(msgs) ==
    LET total == Len(msgs)
        e1 == FirstExc([i \in DOMAIN msgs |-> PriorityExc(msgs[i])])
    IN IF total = 0 THEN Ok(<<>>)
       ELSE IF e1 # "none" THEN Raise(e1)
       ELSE LET priority_counts == CountBy(msgs, "priority", Str(NORMAL))
            IN Ok([i \in DOMAIN priority_counts |->
                     [key |-> priority_counts[i].key,
                      num |-> priority_counts[i].count,
                      den |-> total]])

get_priority_trends(msgs) ==
    LET total == Len(msgs)
        e1 == FirstExc([i \in DOMAIN msgs |-> PriorityExc(msgs[i])])
    IN IF total = 0 THEN Ok(<<>>)
       ELSE IF e1 # "none" THEN Raise(e1)
       ELSE LET priority_counts == CountBy(msgs, "priority", Str(NORMAL))
            IN Ok([i \in DOMAIN priority_counts |->
                     [key |-> priority_counts[i].key,
                      \* count / total * 100, as the fraction num/den
                      num |-> priority_counts[i].count * 100,
                      den |-> total]])

(***************************************************************************)
(* get_response_times                                                      *)
(***************************************************************************)
\* the reply yields a sample attempt: a dict with a 'timestamp' key
HasSample(reply) == IsReply(reply) /\ HasKey(reply, "timestamp")

\* computing the sample raises: the reply timestamp does not parse, or one of
\* the two times is aware and the other naive (TypeError on subtraction)
SampleFails(reply, msg_time) ==
    \/ ~Parses(reply.timestamp)
    \/ ParseTime(reply.timestamp).aware # msg_time.aware

\* (reply_time - msg_time).total_seconds() / 60
SampleMinutes(reply, msg_time) ==
    LET reply_time == ParseTime(reply.timestamp)
    IN ((reply_time.local - reply_time.off) - (msg_time.local - msg_time.off))
       * MinutesPerTick

RECURSIVE ReplySamples(_, _)
\* the samples one record appends: the loop over its replies inside the try;
\* the first exception leaves the loop, what was appended before it stays
ReplySamples(replies, msg_time) ==
    IF replies = <<>> THEN <<>>
    ELSE IF ~HasSample(replies[1]) THEN ReplySamples(Tail(replies), msg_time)
    ELSE IF SampleFails(replies[1], msg_time) THEN <<>>
    ELSE <<SampleMinutes(replies[1], msg_time)>> \o ReplySamples(Tail(replies), msg_time)

MsgSamples(m) ==
    LET msg_time_str == Get(m, "timestamp", Str(<<>>))
        replied_by == Get(m, "replied_by", List(<<>>))
    IN IF ~Truthy(msg_time_str) \/ ~Truthy(replied_by) THEN <<>>
       ELSE IF ~Parses(msg_time_str) THEN <<>>
       ELSE IF ~Iterable(replied_by) THEN <<>>
       ELSE ReplySamples(Items(replied_by), ParseTime(msg_time_str))

RECURSIVE ResponseTimes(_)
ResponseTimes(msgs) ==
    IF msgs = <<>> THEN <<>> ELSE MsgSamples(msgs[1]) \o ResponseTimes(Tail(msgs))

RECURSIVE SumSeq(_)
SumSeq(s) == IF s = <<>> THEN 0 ELSE s[1] + SumSeq(Tail(s))
MinSeq(s) == CHOOSE x \in {s[i] : i \in DOMAIN s} : \A i \in DOMAIN s : x <= s[i]
MaxSeq(s) == CHOOSE x \in {s[i] : i \in DOMAIN s} : \A i \in DOMAIN s : x >= s[i]

get_response_times(msgs) ==
    LET e1 == FirstExc([i \in DOMAIN msgs |-> SentExc(msgs[i])])
        response_times == ResponseTimes(msgs)
    IN IF e1 # "none" THEN Raise(e1)
       ELSE IF response_times = <<>>
       THEN Ok([messages_analyzed |-> 0,
                average_minutes |-> NA,
                fastest_minutes |-> NA,
                slowest_minutes |-> NA])
       ELSE Ok([messages_analyzed |-> Len(response_times),
                average_minutes |-> Minutes(SumSeq(response_times), Len(response_times)),
                fastest_minutes |-> Minutes(MinSeq(response_times), 1),
                slowest_minutes |-> Minutes(MaxSeq(response_times), 1)])

(***************************************************************************)
(* get_communication_matrix                                                *)
(***************************************************************************)
MatrixExc(m) ==
    IF ~IsMsg(m) THEN "AttributeError"
    ELSE LET to_list == NormalizeTo(m)
         IN IF ~IsList(to_list) THEN "TypeError"
            ELSE IF to_list.items # <<>> /\ ~Hashable(Get(m, "from", Str(UNKNOWN)))
                 THEN "TypeError"
            ELSE IF \E i \in DOMAIN to_list.items : ~Hashable(to_list.items[i])
                 THEN "TypeError"
            ELSE "none"

\* the cell is set to 1 instead of incremented
MatrixAddAssign(matrix, from_agent, to_agent) ==
    IF \E i \in DOMAIN matrix : matrix[i].key = from_agent
    THEN [i \in DOMAIN matrix |->
            IF matrix[i].key = from_agent
            THEN [key |-> from_agent, row |-> CounterAddOverwrite(matrix[i].row, to_agent)]
            ELSE matrix[i]]
    ELSE Append(matrix, [key |-> from_agent, row |-> CounterAdd(<<>>, to_agent)])

\* matrix[from_agent][to_agent] += 1
MatrixAdd(matrix, from_agent, to_agent) ==
    IF \E i \in DOMAIN matrix : matrix[i].key = from_agent
    THEN [i \in DOMAIN matrix |->
            IF matrix[i].key = from_agent
            THEN [key |-> from_agent, row |-> CounterAdd(matrix[i].row, to_agent)]
            ELSE matrix[i]]
    ELSE Append(matrix, [key |-> from_agent, row |-> CounterAdd(<<>>, to_agent)])

RECURSIVE MatrixAddAll(_, _, _)
\* for to_agent in to_list: matrix[from_agent][to_agent] += 1
MatrixAddAll(matrix, from_agent, to_items) ==
    IF to_items = <<>> THEN matrix
    ELSE MatrixAddAll(MatrixAdd(matrix, from_agent, to_items[1]), from_agent,
                      Tail(to_items))

RECURSIVE Matrix(_)
Matrix(msgs) ==
    IF msgs = <<>> THEN <<>>
    ELSE LET m == msgs[Len(msgs)]
         IN MatrixAddAll(Matrix(SubSeq(msgs, 1, Len(msgs) - 1)),
                         Get(m, "from", Str(UNKNOWN)), NormalizeTo(m).items)

get_communication_matrix(msgs) ==
    LET e1 == FirstExc([i \in DOMAIN msgs |-> MatrixExc(msgs[i])])
    IN IF e1 # "none" THEN Raise(e1) ELSE Ok(Matrix(msgs))

(***************************************************************************)
(* export_csv: the rows it writes from get_summary()                       *)
(***************************************************************************)
export_csv(msgs) ==
    LET summary == get_summary(msgs)
    IN IF summary.raised THEN summary
       ELSE IF "reply_rate" \notin DOMAIN summary.value THEN Raise("KeyError")
       ELSE Ok([total_messages |-> summary.value.total_messages,
                reply_rate |-> summary.value.reply_rate,
                most_active_agent |-> summary.value.most_active_agent,
                by_sender |-> summary.value.by_sender,
                by_priority |-> summary.value.by_priority])

(***************************************************************************)
(* The stores the model loads.  A file holds text json.loads rejects       *)
(* (Invalid) or a JSON value.  A store is drawn from one family: every     *)
(* family varies the fields one group of queries reads and leaves the      *)
(* other keys out.                                                         *)
(***************************************************************************)
Invalid == [t |-> "invalid"]
ATLAS_2 == ATLAS \o <<"_", "2">>

\* timestamps around the clock: now (offset-less, 'Z', explicit offset), yesterday,
\* the day of the cutoff of a MaxDays window before and after the cutoff's time
\* of day, tomorrow, malformed, empty, missing
Timestamps ==
    {TsStr(Today, NowTick, ""), TsStr(Today, NowTick, "Z"),
     TsStr(Today, NowTick, "+12:00"), TsStr(Today - 1, 0, ""),
     TsStr(Today - MaxDays, 0, ""), TsStr(Today - MaxDays, NowTick, ""),
     TsStr(Today + 1, 0, ""), Str(Garbage), Str(<<>>), Absent}
TimelineStores ==
    {Msg(Absent, Absent, Absent, ts, Absent) : ts \in Timestamps}

\* senders and priorities, with and without a reply
SenderStores ==
    {Msg(f, Absent, p, Absent, Absent) :
        f \in {Absent, Str(ATLAS), Str(FORGE)}, p \in {Absent, Str(HIGH), Str(NORMAL)}}
    \cup {Msg(Str(UNKNOWN), Absent, Absent, Absent, List(<<Reply(Str(FORGE), Absent)>>))}

\* recipients: a single string, a list, duplicates, the broadcast sentinel
Recipients ==
    {Absent, Str(ATLAS), Str(ATLAS_2), Str(ALL_AGENTS), List(<<>>),
     List(<<Str(ATLAS)>>), List(<<Str(ATLAS), Str(ATLAS)>>),
     List(<<Str(ATLAS), Str(ALL_AGENTS)>>), List(<<Str(FORGE), Str(ATLAS)>>)}
RecipientStores ==
    {Msg(f, to, Absent, Absent, Absent) : f \in {Absent, Str(ATLAS)}, to \in Recipients}

\* who replied: none, once, twice, among others, a non-dict entry
Repliers ==
    {Absent, List(<<>>), List(<<Reply(Str(ATLAS), Absent)>>),
     List(<<Reply(Str(ATLAS), Absent), Reply(Str(ATLAS), Absent)>>),
     List(<<Reply(Str(FORGE), Absent), Reply(Str(ATLAS), Absent)>>),
     List(<<Str(ATLAS)>>)}
ReplierStores ==
    {Msg(Str(FORGE), to, Absent, Absent, rb) :
        to \in {Absent, List(<<Str(ATLAS)>>), List(<<Str(FORGE)>>)}, rb \in Repliers}

\* reply timestamps: valid, malformed, missing, 'Z', in every position
GoodReply == Reply(Str(FORGE), TsStr(Today, 0, ""))
LateReply == Reply(Str(ATLAS), TsStr(Today, NowTick, ""))
BadReply == Reply(Str(FORGE), Str(Garbage))
NoTimeReply == Reply(Str(FORGE), Absent)
ZReply == Reply(Str(FORGE), TsStr(Today, 0, "Z"))
ReplyLists ==
    {<<>>, <<GoodReply>>, <<BadReply>>, <<GoodReply, BadReply>>, <<BadReply, GoodReply>>,
     <<GoodReply, LateReply>>, <<GoodReply, BadReply, LateReply>>,
     <<NoTimeReply, GoodReply>>, <<ZReply, GoodReply>>}
ResponseStores ==
    {Msg(Absent, Absent, Absent, TsStr(Today - 1, 0, ""), List(rl)) : rl \in ReplyLists}
    \cup {Msg(Absent, Absent, Absent, TsStr(Today - 1, 0, "Z"), List(<<ZReply>>)),
          Msg(Absent, Absent, Absent, Str(Garbage), List(<<GoodReply>>)),
          Msg(Absent, Absent, Absent, Absent, List(<<GoodReply>>))}

Families ==
    {TimelineStores, SenderStores, RecipientStores, ReplierStores, ResponseStores}

\* the documented input domain: every key absent or of its documented type
Documented == UNION Families

\* values of an unexpected shape: a file that is not an object, null or
\* mistyped fields
AnyShape ==
    {Null, Num(7), List(<<>>),
     Msg(Str(ATLAS), List(<<Str(FORGE)>>), Str(HIGH), TsStr(Today, 0, ""), List(<<GoodReply>>)),
     Msg(Null, Absent, Null, Null, Absent),
     Msg(List(<<Str(ATLAS)>>), Absent, Absent, Absent, Absent),
     Msg(List(<<Str(ATLAS)>>), List(<<Str(FORGE)>>), Absent, Absent, Absent),
     Msg(Absent, Absent, List(<<Str(HIGH)>>), Absent, Absent),
     Msg(Absent, Null, Absent, Absent, Absent),
     Msg(Absent, Num(7), Absent, Absent, Absent),
     Msg(Absent, List(<<List(<<>>)>>), Absent, Absent, Absent),
     Msg(Absent, Absent, Absent, Num(7), List(<<GoodReply>>)),
     Msg(Absent, Absent, Absent, TsStr(Today, 0, ""), Null),
     Msg(Absent, Absent, Absent, TsStr(Today, 0, ""), Num(7)),
     Msg(Absent, Absent, Absent, TsStr(Today, 0, ""), Str(ATLAS)),
     Msg(Absent, Absent, Absent, TsStr(Today, 0, ""), List(<<Null, Reply(Null, Num(7))>>))}

\* the names get_agent_stats is asked about, and the window lengths
AgentNames == {atlas, FORGE, ALL_AGENTS}
DayCounts == 0..MaxDays

(***************************************************************************)
(* The state machine.                                                      *)
(***************************************************************************)
VARIABLES
    pc,        \* "loading" inside __init__, "ready" once it has returned
    scanned,   \* the number of files of the glob visited so far
    messages,  \* self.messages
    result,    \* the last query called and what it returned or raised
    loaded     \* history: self.messages as __init__ returned it

vars == <<pc, scanned, messages, result, loaded>>

NoCall == [op |-> "none"]

Init ==
    /\ pc = "loading"
    /\ scanned = 0
    /\ messages = <<>>
    /\ result = NoCall
    /\ loaded = <<>>

\* one iteration of the loop of _load_all_messages
LoadFileUpTo(data, max) ==
    /\ pc = "loading"
    /\ scanned < max
    /\ scanned' = scanned + 1
    /\ messages' = IF data = Invalid THEN messages ELSE Append(messages, data)
    /\ UNCHANGED <<pc, result, loaded>>

LoadFile(data) == LoadFileUpTo(data, MaxFiles)

\* the store holds files of one family
LoadDocumented ==
    \E family \in Families : \E data \in family \cup {Invalid} :
        /\ \A i \in DOMAIN messages : messages[i] \in family
        /\ LoadFile(data)

LoadAnyShape == \E data \in AnyShape \cup {Invalid} : LoadFile(data)

\* a larger store of the sender/priority family
LoadSenders == \E data \in SenderStores \cup {Invalid} : LoadFileUpTo(data, MaxSenderFiles)

\* the glob is exhausted: __init__ returns
FinishLoad ==
    /\ pc = "loading"
    /\ pc' = "ready"
    /\ loaded' = messages
    /\ UNCHANGED <<scanned, messages, result>>

\* a query that stored the normalized 'to' back into the record
\* (msg['to'] = [to_list]) would change the loaded records
NormalizedInPlace(msgs) ==
    [i \in DOMAIN msgs |->
        IF IsMsg(msgs[i]) /\ msgs[i].to # Absent /\ IsStr(msgs[i].to)
        THEN [msgs[i] EXCEPT !.to = List(<<msgs[i].to>>)]
        ELSE msgs[i]]

\* self.messages after a query: the queries read the records through msg.get
\* and rebind locals (to_list = [to_list]); none assigns to self.messages or
\* to a record
MessagesAfterQuery(msgs) == msgs

Query(call) ==
    /\ pc = "ready"
    /\ result' = call
    /\ messages' = MessagesAfterQuery(messages)
    /\ UNCHANGED <<pc, scanned, loaded>>

GetSummary == Query([op |-> "get_summary", out |-> get_summary(messages)])
GetAgentStats ==
    \E agent_name \in AgentNames :
        Query([op |-> "get_agent_stats", agent_name |-> agent_name,
               out |-> get_agent_stats(messages, agent_name)])
GetTimeline ==
    \E days \in DayCounts :
        Query([op |-> "get_timeline", days |-> days, out |-> get_timeline(messages, days)])
GetPriorityTrends ==
    Query([op |-> "get_priority_trends", out |-> get_priority_trends(messages)])
GetResponseTimes ==
    Query([op |-> "get_response_times", out |-> get_response_times(messages)])
GetCommunicationMatrix ==
    Query([op |-> "get_communication_matrix", out |-> get_communication_matrix(messages)])

ExportCsv == Query([op |-> "export_csv", out |-> export_csv(messages)])

Queries ==
    \/ GetSummary
    \/ GetAgentStats
    \/ GetTimeline
    \/ GetPriorityTrends
    \/ GetResponseTimes
    \/ GetCommunicationMatrix
    \/ ExportCsv

Next ==
    \/ LoadDocumented
    \/ FinishLoad
    \/ Queries

Spec == Init /\ [][Next]_vars

NextAny ==
    \/ LoadAnyShape
    \/ FinishLoad
    \/ Queries

\* the same program over stores with values of unexpected shapes
SpecAny == Init /\ [][NextAny]_vars

NextSenders ==
    \/ LoadSenders
    \/ FinishLoad
    \/ Queries

\* the same program over stores of up to MaxSenderFiles sender/priority records
SpecSenders == Init /\ [][NextSenders]_vars

TypeOK ==
    /\ pc \in {"loading", "ready"}
    /\ scanned \in 0..MaxFiles
    /\ Len(messages) <= scanned

(***************************************************************************)
(* The claims.  `result` holds the last call, so an invariant about        *)
(* result.op = q speaks of every call of q on every reachable store.       *)
(***************************************************************************)
QueryOps ==
    {"get_summary", "get_agent_stats", "get_timeline", "get_priority_trends",
     "get_response_times", "get_communication_matrix"}
Returned == ~result.out.raised
Value == result.out.value

\* the record's sender and recipient sequence as the data model defines them
SenderOf(m) == IF m.from = Absent THEN Str(UNKNOWN) ELSE m.from
PriorityOf(m) == IF m.priority = Absent THEN Str(NORMAL) ELSE m.priority
RecipientsOf(m) ==
    IF m.to = Absent THEN <<>> ELSE IF IsStr(m.to) THEN <<m.to>> ELSE m.to.items
RepliesOf(m) == IF m.replied_by = Absent THEN <<>> ELSE m.replied_by.items

KeysDistinct(c) == \A i, j \in DOMAIN c : c[i].key = c[j].key => i = j
\* the sum of the counts a summary lists under key (it lists none without the key)
HistogramTotal(summary, key) ==
    IF key \in DOMAIN summary THEN SumCounts(summary[key]) ELSE 0

\* C1: conservation. In every get_summary() result total_messages is the number
\* of loaded records, the by_sender counts add up to it and so do the by_priority
\* counts; no key appears twice, a non-empty store lists both histograms, and
\* each record's sender (UNKNOWN without 'from') and priority (NORMAL without
\* 'priority') is one of the keys.
C1_Conservation ==
    result.op = "get_summary" =>
        /\ Returned
        /\ Value.total_messages = Len(messages)
        /\ HistogramTotal(Value, "by_sender") = Value.total_messages
        /\ HistogramTotal(Value, "by_priority") = Value.total_messages
        /\ messages # <<>> =>
              /\ KeysDistinct(Value.by_sender)
              /\ KeysDistinct(Value.by_priority)
              /\ \A i \in DOMAIN messages :
                    /\ \E a \in DOMAIN Value.by_sender :
                          Value.by_sender[a].key = SenderOf(messages[i])
                    /\ \E b \in DOMAIN Value.by_priority :
                          Value.by_priority[b].key = PriorityOf(messages[i])

\* a summary of two records, one without 'from' and one without 'priority',
\* that share a sender bucket or a priority bucket
C1_Witness ==
    /\ result.op = "get_summary"
    /\ Len(messages) = 2
    /\ \E i \in DOMAIN messages : messages[i].from = Absent
    /\ \E i \in DOMAIN messages : messages[i].priority = Absent
    /\ \E a \in DOMAIN Value.by_priority : Value.by_priority[a].count = 2
    /\ Len(Value.by_sender) = 2

\* C2: no empty denominator. On a store with zero records every query returns
\* its empty-state result without raising (total_messages = 0, empty trends,
\* messages_analyzed = 0 with N/A three times, empty matrix, a timeline of
\* zeros, response_rate N/A); on every store get_agent_stats returns, with
\* response_rate N/A exactly when messages_received = 0.
C2_EmptyDenominator ==
    /\ (result.op \in QueryOps /\ messages = <<>>) =>
          /\ Returned
          /\ result.op = "get_summary" => Value.total_messages = 0
          /\ result.op = "get_priority_trends" => Value = <<>>
          /\ result.op = "get_response_times" =>
                /\ Value.messages_analyzed = 0
                /\ Value.average_minutes = NA
                /\ Value.fastest_minutes = NA
                /\ Value.slowest_minutes = NA
          /\ result.op = "get_communication_matrix" => Value = <<>>
          /\ result.op = "get_timeline" =>
                /\ Len(Value) = result.days
                /\ \A k \in DOMAIN Value : Value[k].count = 0
          /\ result.op = "get_agent_stats" => Value.response_rate = NA
    /\ result.op = "get_agent_stats" =>
          /\ Returned
          /\ Value.response_rate = NA <=> Value.messages_received = 0

\* get_agent_stats on a store whose only file was skipped as malformed
C2_Witness ==
    /\ result.op = "get_agent_stats"
    /\ scanned > 0
    /\ messages = <<>>
    /\ Value.response_rate = NA

\* C3: get_summary() always reports most_active_agent and most_active_count:
\* the sentinel "None" / 0 on an empty store, the highest send count otherwise;
\* and export_csv, which reads reply_rate and most_active_agent, returns.
C3_MostActiveAlways ==
    /\ result.op = "get_summary" =>
          /\ Returned
          /\ "most_active_agent" \in DOMAIN Value
          /\ "most_active_count" \in DOMAIN Value
          /\ IF messages = <<>>
             THEN Value.most_active_agent = Str(NoneStr) /\ Value.most_active_count = 0
             ELSE /\ Value.most_active_count =
                        Cardinality({i \in DOMAIN messages :
                                        SenderOf(messages[i]) = Value.most_active_agent})
                  /\ \A j \in DOMAIN messages :
                        Cardinality({i \in DOMAIN messages :
                                        SenderOf(messages[i]) = SenderOf(messages[j])})
                        <= Value.most_active_count
    /\ result.op = "export_csv" => Returned

\* the record leaves the timeline alone according to the claim: timestamp
\* missing, unparseable, earlier than the cutoff, or dated outside the window
C4_Excluded(m, days) ==
    \/ m.timestamp = Absent
    \/ ~IsIso(m.timestamp)
    \/ m.timestamp.date * TicksPerDay + m.timestamp.time < Now - days * TicksPerDay
    \/ m.timestamp.date \notin {Today - k : k \in 0..(days - 1)}

RECURSIVE C4_Kept(_, _)
C4_Kept(msgs, days) ==
    IF msgs = <<>> THEN <<>>
    ELSE (IF C4_Excluded(msgs[1], days) THEN <<>> ELSE <<msgs[1]>>)
         \o C4_Kept(Tail(msgs), days)

\* C4: timeline density. get_timeline(days = N) returns N entries, the k-th
\* keyed by the date N - k days before today, each count >= 0, and the result is
\* the one the store gives with every excluded record removed.
C4_TimelineDensity ==
    result.op = "get_timeline" =>
        /\ Returned
        /\ Len(Value) = result.days
        /\ \A k \in DOMAIN Value :
              /\ Value[k].date = Today - result.days + k
              /\ Value[k].count >= 0
        /\ Value = get_timeline(C4_Kept(messages, result.days), result.days).value

\* a timeline of at least two days over a store holding a record the claim
\* excludes (it has an ISO timestamp) and a record that is counted
C4_Witness ==
    /\ result.op = "get_timeline"
    /\ result.days >= 2
    /\ \E i \in DOMAIN messages :
          IsIso(messages[i].timestamp) /\ C4_Excluded(messages[i], result.days)
    /\ \E k \in DOMAIN Value : Value[k].count > 0

\* C5: every record with a parseable timestamp at or after the cutoff adds one
\* to the bucket of its own calendar date, whatever the form of the timestamp
\* (offset-less, explicit offset, trailing 'Z').
C5_EveryFormCounted ==
    (result.op = "get_timeline" /\ Returned) =>
        \A k \in DOMAIN Value :
            Value[k].count =
                Cardinality({i \in DOMAIN messages :
                    /\ messages[i].timestamp # Absent
                    /\ IsIso(messages[i].timestamp)
                    /\ messages[i].timestamp.date * TicksPerDay + messages[i].timestamp.time
                          >= Now - result.days * TicksPerDay
                    /\ messages[i].timestamp.date = Value[k].date})

\* the timestamp is a valid one without an offset
C6_Valid(ts) == ts # Absent /\ IsIso(ts) /\ ts.suffix = ""
\* every timestamp of the record and of its replies is offset-less or malformed
C6_NoOffsets(m) ==
    /\ (m.timestamp # Absent /\ IsIso(m.timestamp)) => m.timestamp.suffix = ""
    /\ \A j \in DOMAIN RepliesOf(m) :
          IsIso(RepliesOf(m)[j].timestamp) => RepliesOf(m)[j].timestamp.suffix = ""
\* the replies of the record that carry a valid timestamp
C6_ValidReplies(m) ==
    IF C6_Valid(m.timestamp)
    THEN Cardinality({j \in DOMAIN RepliesOf(m) : C6_Valid(RepliesOf(m)[j].timestamp)})
    ELSE 0
RECURSIVE C6_Expected(_)
C6_Expected(msgs) ==
    IF msgs = <<>> THEN 0 ELSE C6_ValidReplies(msgs[1]) + C6_Expected(Tail(msgs))

\* C6: a malformed reply timestamp removes only its own sample: over records
\* with a valid timestamp, messages_analyzed is the number of replies with a
\* valid timestamp, wherever the malformed replies sit.
C6_OnlyThatSample ==
    (/\ result.op = "get_response_times"
     /\ Returned
     /\ \A i \in DOMAIN messages : C6_NoOffsets(messages[i])) =>
        Value.messages_analyzed = C6_Expected(messages)

\* C7: every query function returns a result on every store, whatever the
\* shape of the loaded values.
C7_Total == result.op \in QueryOps => Returned

\* the senders and recipients that occur in the store
AllSenders == {SenderOf(messages[i]) : i \in DOMAIN messages}
AllRecipients ==
    UNION {{RecipientsOf(messages[i])[j] : j \in DOMAIN RecipientsOf(messages[i])} :
              i \in DOMAIN messages}
\* the occurrences of recipient R in the recipient sequences of the records S sent
Occurrences(S, R) ==
    Cardinality(UNION {{<<i, j>> : j \in {j \in DOMAIN RecipientsOf(messages[i]) :
                                             RecipientsOf(messages[i])[j] = R}} :
                          i \in {i \in DOMAIN messages : SenderOf(messages[i]) = S}})
\* matrix[S][R], 0 where the cell does not exist
Cell(matrix, S, R) ==
    LET rows == {a \in DOMAIN matrix : matrix[a].key = S}
    IN IF rows = {} THEN 0
       ELSE LET row == matrix[CHOOSE a \in rows : TRUE].row
                cells == {b \in DOMAIN row : row[b].key = R}
            IN IF cells = {} THEN 0 ELSE row[CHOOSE b \in cells : TRUE].count
RECURSIVE SumRows(_)
SumRows(matrix) ==
    IF matrix = <<>> THEN 0 ELSE SumCounts(matrix[1].row) + SumRows(Tail(matrix))
RECURSIVE RecipientEntries(_)
RecipientEntries(msgs) ==
    IF msgs = <<>> THEN 0 ELSE Len(RecipientsOf(msgs[1])) + RecipientEntries(Tail(msgs))

\* C8: matrix additivity. matrix[S][R] is the number of occurrences of R in the
\* normalized recipient sequences of the records sent by S; a cell exists only
\* with a positive count, a top-level key only with at least one cell, no key
\* twice, and the cells add up to the number of recipient entries.
C8_MatrixAdditivity ==
    result.op = "get_communication_matrix" =>
        /\ Returned
        /\ KeysDistinct(Value)
        /\ \A a \in DOMAIN Value :
              /\ Value[a].key \in AllSenders
              /\ Value[a].row # <<>>
              /\ KeysDistinct(Value[a].row)
              /\ \A b \in DOMAIN Value[a].row :
                    /\ Value[a].row[b].key \in AllRecipients
                    /\ Value[a].row[b].count > 0
        /\ \A S \in AllSenders : \A R \in AllRecipients :
              Cell(Value, S, R) = Occurrences(S, R)
        /\ SumRows(Value) = RecipientEntries(messages)

\* a matrix over a record with the duplicated recipient [A, A] and a record
\* whose 'to' is a single string
C8_Witness ==
    /\ result.op = "get_communication_matrix"
    /\ \E i \in DOMAIN messages :
          /\ messages[i].to = List(<<Str(ATLAS), Str(ATLAS)>>)
          /\ Cell(Value, SenderOf(messages[i]), Str(ATLAS)) >= 2
    /\ \E i \in DOMAIN messages :
          /\ messages[i].to # Absent
          /\ IsStr(messages[i].to)
          /\ Cell(Value, SenderOf(messages[i]), messages[i].to) >= 1

\* C9: messages_received is the number of records whose normalized recipient
\* sequence has the upper-cased name or ALL_AGENTS as an element, each record
\* counted once.
C9_MessagesReceived ==
    result.op = "get_agent_stats" =>
        /\ Returned
        /\ Value.messages_received =
              Cardinality({i \in DOMAIN messages :
                  \E j \in DOMAIN RecipientsOf(messages[i]) :
                      \/ RecipientsOf(messages[i])[j] = Str(Upper(result.agent_name))
                      \/ RecipientsOf(messages[i])[j] = Str(ALL_AGENTS)})

\* the lower-case query "atlas" over a record sent to the single string
\* "ATLAS_2" and a record naming both ATLAS and ALL_AGENTS: one received
C9_Witness ==
    /\ result.op = "get_agent_stats"
    /\ result.agent_name = atlas
    /\ \E i \in DOMAIN messages : messages[i].to = Str(ATLAS_2)
    /\ \E i \in DOMAIN messages : messages[i].to = List(<<Str(ATLAS), Str(ALL_AGENTS)>>)
    /\ Value.messages_received = 1

\* C10: messages_replied_to is the number of records with at least one reply
\* entry whose 'ai' is the upper-cased name, and messages_sent the number of
\* records whose 'from' is the upper-cased name.
C10_RepliedToAndSent ==
    result.op = "get_agent_stats" =>
        /\ Returned
        /\ Value.messages_replied_to =
              Cardinality({i \in DOMAIN messages :
                  \E j \in DOMAIN RepliesOf(messages[i]) :
                      /\ IsReply(RepliesOf(messages[i])[j])
                      /\ RepliesOf(messages[i])[j].ai = Str(Upper(result.agent_name))})
        /\ Value.messages_sent =
              Cardinality({i \in DOMAIN messages :
                  messages[i].from = Str(Upper(result.agent_name))})

\* the query "atlas" over a record ATLAS replied to twice and a record ATLAS
\* sent: one replied to, one sent
C10_Witness ==
    /\ result.op = "get_agent_stats"
    /\ result.agent_name = atlas
    /\ \E i \in DOMAIN messages :
          messages[i].replied_by =
              List(<<Reply(Str(ATLAS), Absent), Reply(Str(ATLAS), Absent)>>)
    /\ Value.messages_replied_to = 1

\* what the call recorded in r returns on the collection msgs
Recompute(r, msgs) ==
    CASE r.op = "get_summary" -> get_summary(msgs)
      [] r.op = "get_agent_stats" -> get_agent_stats(msgs, r.agent_name)
      [] r.op = "get_timeline" -> get_timeline(msgs, r.days)
      [] r.op = "get_priority_trends" -> get_priority_trends(msgs)
      [] r.op = "get_response_times" -> get_response_times(msgs)
      [] r.op = "get_communication_matrix" -> get_communication_matrix(msgs)

RECURSIVE SumNum(_)
SumNum(trends) == IF trends = <<>> THEN 0 ELSE trends[1].num + SumNum(Tail(trends))

FirstSender(k) ==
    CHOOSE i \in DOMAIN messages :
        /\ SenderOf(messages[i]) = k
        /\ \A j \in 1..(i - 1) : SenderOf(messages[j]) # k
FirstPriority(k) ==
    CHOOSE i \in DOMAIN messages :
        /\ PriorityOf(messages[i]) = k
        /\ \A j \in 1..(i - 1) : PriorityOf(messages[j]) # k

\* C13: on a non-empty store by_sender and by_priority list their entries by
\* non-increasing count, entries of equal count in the order their keys were
\* first met in the traversal; most_active_agent / most_active_count are the
\* first entry of by_sender, so most_active_count is the largest count.
C13_DescendingOrder ==
    (result.op = "get_summary" /\ messages # <<>>) =>
        /\ Returned
        /\ \A a, b \in DOMAIN Value.by_sender : a < b =>
              /\ Value.by_sender[a].count >= Value.by_sender[b].count
              /\ Value.by_sender[a].count = Value.by_sender[b].count =>
                    FirstSender(Value.by_sender[a].key) < FirstSender(Value.by_sender[b].key)
        /\ \A a, b \in DOMAIN Value.by_priority : a < b =>
              /\ Value.by_priority[a].count >= Value.by_priority[b].count
              /\ Value.by_priority[a].count = Value.by_priority[b].count =>
                    FirstPriority(Value.by_priority[a].key)
                        < FirstPriority(Value.by_priority[b].key)
        /\ Value.most_active_agent = Value.by_sender[1].key
        /\ Value.most_active_count = Value.by_sender[1].count
        /\ \A a \in DOMAIN Value.by_sender :
              Value.by_sender[a].count <= Value.most_active_count

\* a summary of three records whose first sender is met once and whose second
\* sender twice: the second sender leads by_sender; by_priority has two entries
C13_Witness ==
    /\ result.op = "get_summary"
    /\ Len(messages) = 3
    /\ SenderOf(messages[1]) # SenderOf(messages[2])
    /\ SenderOf(messages[2]) = SenderOf(messages[3])
    /\ Value.most_active_agent = SenderOf(messages[2])
    /\ Value.most_active_count = 2
    /\ Len(Value.by_priority) = 2

\* the record names the agent (or ALL_AGENTS) among its recipients
Addressed(m, agent_upper) ==
    \E j \in DOMAIN RecipientsOf(m) :
        RecipientsOf(m)[j] = Str(agent_upper) \/ RecipientsOf(m)[j] = Str(ALL_AGENTS)
\* the record has a reply entry of the agent
RepliedBy(m, agent_upper) ==
    \E j \in DOMAIN RepliesOf(m) :
        IsReply(RepliesOf(m)[j]) /\ RepliesOf(m)[j].ai = Str(agent_upper)

\* C14 as stated: messages_replied_to <= messages_received, and a response_rate
\* other than 'N/A' lies between 0.0% and 100.0%.
C14_RepliedAtMostReceived ==
    (result.op = "get_agent_stats" /\ Returned) =>
        /\ Value.messages_replied_to <= Value.messages_received
        /\ Value.response_rate # NA =>
              Value.response_rate.tenths >= 0 /\ Value.response_rate.tenths <= 1000

\* C14 amended: messages_replied_to is at most the number of records, and a
\* response_rate other than 'N/A' is at least 0.0%; when every record the agent
\* replied to names it (or ALL_AGENTS) as a recipient, messages_replied_to <=
\* messages_received and the rate is at most 100.0%.
C14_RepliedAtMostTotal ==
    result.op = "get_agent_stats" =>
        /\ Returned
        /\ Value.messages_replied_to <= Len(messages)
        /\ Value.response_rate # NA => Value.response_rate.tenths >= 0
        /\ (\A i \in DOMAIN messages :
               RepliedBy(messages[i], Upper(result.agent_name))
                   => Addressed(messages[i], Upper(result.agent_name))) =>
              /\ Value.messages_replied_to <= Value.messages_received
              /\ Value.response_rate # NA => Value.response_rate.tenths <= 1000

\* "atlas" replied to a record sent to it and to a record sent to FORGE alone:
\* one received, two replied to, response_rate 200.0%
C14_Witness ==
    /\ result.op = "get_agent_stats"
    /\ result.agent_name = atlas
    /\ \E i \in DOMAIN messages :
          RepliedBy(messages[i], ATLAS) /\ ~Addressed(messages[i], ATLAS)
    /\ Value.messages_received = 1
    /\ Value.messages_replied_to = 2
    /\ Value.response_rate = [tenths |-> 2000, unit |-> "%"]

=============================================================================
